---------------------------- MODULE Spec2Model ----------------------------
(***************************************************************************)
(* Model of the survey platform backend (src/main.py, src/schemas.py):     *)
(* the HTTP handlers acting on the document store.                         *)
(*                                                                         *)
(* Documents are records; a collection is the sequence of its documents in *)
(* insertion order and a document's generated identifier is its position   *)
(* in that sequence (identifiers are unique and never reused: nothing is   *)
(* ever deleted).  Python's None is the value None below.                  *)
(***************************************************************************)
EXTENDS Integers, Sequences, FiniteSets, TLC

VARIABLES
    surveys,      \* collection "survey"
    responses,    \* collection "surveyresponse"
    sreq,         \* submit_response requests in flight, per worker
    reply,        \* the last reply of set_survey_status
    afile,        \* the file an upload is analysed from
    aout,         \* the outcome of the upload's analysis
    datasets,     \* collection "dataset"
    datasetrows,  \* collection "datasetrow"
    ureq,         \* upload_dataset requests in flight, per worker
    uploads,      \* history: how the upload that created each dataset ended
    questions,    \* export_csv: the survey's questions (line 241)
    eresponses,   \* export_csv: the responses read at line 238
    gen,          \* export_csv: the position of the generator iter_csv
    chunks        \* export_csv: the chunks the generator has yielded

subVars == <<surveys, responses, sreq, reply>>
anVars == <<afile, aout>>
upVars == <<datasets, datasetrows, ureq, uploads>>
exVars == <<questions, eresponses, gen, chunks>>
vars == <<surveys, responses, sreq, reply, afile, aout,
          datasets, datasetrows, ureq, uploads,
          questions, eresponses, gen, chunks>>

None == "<None>"

\* Python truthiness of an Optional[str]
Truthy(v) == v \notin {None, ""}

\* An Optional[int] is the empty set (None) or the singleton of its value
NoInt == {}
SomeInt(n) == {n}
IntOf(o) == CHOOSE n \in o : TRUE
\* Python truthiness of an Optional[int]: None and 0 are falsy
TruthyInt(o) == o # NoInt /\ o # SomeInt(0)

-----------------------------------------------------------------------------
(* Bounds and input domains *)

MaxSurveys == 2          \* surveys created in the status specification
MaxResponses == 2        \* responses submitted
MaxLimit == 1            \* largest response_limit_per_user

Workers == {"w1", "w2"}                     \* two concurrent requests
Users == {None, "u1"}
BadId == 0                                  \* a string ObjectId() rejects
SubmitSurveyIds == {1}                      \* the survey responses go to
PathIds == {BadId} \cup SubmitSurveyIds
PayloadSurveyIds == SubmitSurveyIds \cup {Cardinality(SubmitSurveyIds) + 1}
LimitInputs == {NoInt} \cup {SomeInt(n) : n \in 0..MaxLimit}
MaxLines == 3            \* data lines of an analysed file
MaxUploadLines == 2      \* data lines of an uploaded file
MaxDatasets == 2         \* uploads that create a dataset

Vals == {"a", "b"}                          \* data cells
\* headers: a blank first line, one column, two columns, a repeated name
HeaderInputs == {<<>>, <<"c1">>, <<"c1", "c2">>, <<"c1", "c1">>}
FieldLens == 0..3                           \* one more than the widest header
SeqsOf(S, lens) == UNION {[1..n -> S] : n \in lens}
CsvName == <<"d", ".", "c", "s", "v">>
OtherNames == {<<"d", ".", "C", "S", "V">>, <<"d", ".", "t", "x", "t">>, <<"c", "s", "v">>}
UploadCols == {"c1"}
UploadVals == {"a"}
UploadFieldLens == 0..2
MaxQuestions == 2        \* questions of an exported survey
MaxExported == 2         \* responses of an exported survey

\* questions: overriding header, text only, neither
QuestionInputs ==
    {[id |-> "q1", text |-> "T", export_header |-> "H"],
     [id |-> "q1", text |-> "T", export_header |-> None],
     [id |-> "q2", text |-> "", export_header |-> None]}
\* answer entries: keyed by questionId with a null value, keyed by text,
\* keyed by id (the questionId being empty)
AnswerInputs ==
    {[questionId |-> "q1", id |-> None, text |-> None, value |-> None],
     [questionId |-> None, id |-> None, text |-> "T", value |-> "y"],
     [questionId |-> "", id |-> "q1", text |-> "T", value |-> "x"]}
AnswerLens == 0..2
ResponseInputs ==
    [answers : SeqsOf(AnswerInputs, AnswerLens),
     submitted_by : {"u1"},
     anonymous : {FALSE},
     created_at : {"t"}]
    \cup [answers : {<<>>}, submitted_by : {None}, anonymous : {TRUE},
          created_at : {"t"}]
StatusInputs == {"draft", "active", "closed", "archived"}

-----------------------------------------------------------------------------
(* Store primitives *)

\* oid(): ObjectId(id_str) raises -> HTTP 400
ValidOid(id) == id # BadId

\* create_document(collection, doc): appends, returns the generated id
create_document(coll, doc) == Append(coll, doc)

\* db[coll].find_one({"_id": oid(id)}) finds a document
found(coll, id) == id \in DOMAIN coll

\* db["surveyresponse"].count_documents({"survey_id": sid, "submitted_by": u})
count_documents(sid, u) ==
    Cardinality({i \in DOMAIN responses :
                    /\ responses[i].survey_id = sid
                    /\ responses[i].submitted_by = u})

-----------------------------------------------------------------------------
(* Surveys *)

SurveySettings(ra, lim) == [require_auth |-> ra, response_limit_per_user |-> lim]

\* POST /api/surveys: the payload is stored as given (status is a plain str)
create_survey(settings, status) ==
    /\ surveys' = create_document(surveys, [settings |-> settings, status |-> status])
    /\ UNCHANGED <<responses, sreq, reply, anVars, upVars, exVars>>

NoReply == [survey_id |-> BadId, status |-> "", result |-> 0]

\* POST /api/surveys/{id}/status: the status check, then oid(), then update_one
set_survey_status(survey_id, status) ==
    LET rep == [survey_id |-> survey_id, status |-> status, result |-> 200]
    IN  /\ IF status \notin {"draft", "active", "closed"}
              THEN reply' = [rep EXCEPT !.result = 400] /\ UNCHANGED surveys
            ELSE IF ~ValidOid(survey_id)
              THEN reply' = [rep EXCEPT !.result = 400] /\ UNCHANGED surveys
            ELSE IF ~found(surveys, survey_id)           \* matched_count == 0
              THEN reply' = [rep EXCEPT !.result = 404] /\ UNCHANGED surveys
            ELSE /\ surveys' = [surveys EXCEPT ![survey_id].status = status]
                 /\ reply' = rep
        /\ UNCHANGED <<responses, sreq, anVars, upVars, exVars>>

-----------------------------------------------------------------------------
(* upload_dataset: parsing and analysis (lines 108-131) *)

\* A dict value: a string cell, None, or the list DictReader files the
\* surplus fields of a long row under
Str(s) == [str |-> s]
List(l) == [list |-> l]
NoneV == [none |-> TRUE]

\* A dict is the sequence of its (key, value) items in insertion order
DictHas(d, k) == \E i \in DOMAIN d : d[i].k = k

\* d[k] = v: a present key keeps its position and takes the new value
DictSet(d, k, v) ==
    IF DictHas(d, k)
      THEN [i \in DOMAIN d |-> IF d[i].k = k THEN [k |-> k, v |-> v] ELSE d[i]]
      ELSE Append(d, [k |-> k, v |-> v])

\* d.get(k)
DictGet(d, k) ==
    IF DictHas(d, k) THEN d[CHOOSE i \in DOMAIN d : d[i].k = k].v ELSE NoneV

\* list(d.keys())
DictKeys(d) == [i \in DOMAIN d |-> d[i].k]

Min(a, b) == IF a <= b THEN a ELSE b

\* dict(zip(fieldnames, row))
RECURSIVE ZipDict(_, _, _)
ZipDict(fieldnames, row, n) ==
    IF n = 0 THEN <<>>
    ELSE DictSet(ZipDict(fieldnames, row, n - 1), fieldnames[n], Str(row[n]))

\* for key in fieldnames[lr:]: d[key] = restval (None)
RECURSIVE FillRest(_, _, _)
FillRest(d, fieldnames, n) ==
    IF n > Len(fieldnames) THEN d
    ELSE FillRest(DictSet(d, fieldnames[n], NoneV), fieldnames, n + 1)

\* csv.DictReader.__next__ on one non-blank record: surplus fields are
\* filed under restkey (None), missing ones are set to restval (None)
DictRow(fieldnames, row) ==
    LET lf == Len(fieldnames)
        lr == Len(row)
        d == ZipDict(fieldnames, row, Min(lf, lr))
    IN  IF lf < lr THEN DictSet(d, None, List(SubSeq(row, lf + 1, lr)))
        ELSE IF lf > lr THEN FillRest(d, fieldnames, lr + 1)
        ELSE d

\* the records after the header, blank ones ([]) skipped
RECURSIVE DictRows(_, _)
DictRows(fieldnames, records) ==
    IF records = <<>> THEN <<>>
    ELSE IF Head(records) = <<>> THEN DictRows(fieldnames, Tail(records))
    ELSE <<DictRow(fieldnames, Head(records))>> \o DictRows(fieldnames, Tail(records))

\* list(csv.DictReader(StringIO(content))): the first record is the header
DictReader(records) ==
    IF records = <<>> THEN <<>> ELSE DictRows(Head(records), Tail(records))

SeqHas(l, v) == \E i \in DOMAIN l : l[i] = v

\* lines 122-123 without the membership test
AddDistinct_dup(l, v) == IF v # NoneV THEN Append(l, v) ELSE l

\* lines 122-123
AddDistinct(l, v) == IF v # NoneV /\ ~SeqHas(l, v) THEN Append(l, v) ELSE l

\* lines 118-123: distincts, a mapping from each column to its list
RECURSIVE Distincts(_, _, _)
Distincts(rows, columns, n) ==
    IF n = 0 THEN [c \in {columns[i] : i \in DOMAIN columns} |-> <<>>]
    ELSE LET d == Distincts(rows, columns, n - 1)
         IN  [c \in DOMAIN d |-> AddDistinct(d[c], DictGet(rows[n], c))]

\* str.lower() on the characters file names are made of
Lower(ch) == CASE ch = "C" -> "c" [] ch = "S" -> "s" [] ch = "V" -> "v"
               [] OTHER -> ch

\* line 108: file.filename.lower().endswith(".csv")
IsCsvName(filename) ==
    LET suffix == <<".", "c", "s", "v">>
        n == Len(filename)
    IN  /\ n >= Len(suffix)
        /\ \A i \in DOMAIN suffix : Lower(filename[n - Len(suffix) + i]) = suffix[i]

\* schemas.py: columns: List[str], distincts: Dict[str, List[str]]
ValidVersion(columns) == \A i \in DOMAIN columns : columns[i] # None

\* schemas.py: DatasetRow.data: Dict[str, Any]
ValidRow(r) == ~DictHas(r, None)

NoFile == [filename |-> <<>>, records |-> <<>>]

NoAnalysis == [status |-> 0, columns |-> <<>>, rows |-> <<>>,
               distincts |-> <<>>, version_rows |-> 0]

\* lines 108-131: the outcome of the checks, the parse, the analysis and
\* the construction of the DatasetVersion
Analysis(file) ==
    IF ~IsCsvName(file.filename) THEN [NoAnalysis EXCEPT !.status = 400]
    ELSE LET rows == DictReader(file.records)
         IN  IF rows = <<>> THEN [NoAnalysis EXCEPT !.status = 400]
             ELSE LET columns == DictKeys(rows[1])
                      distincts == Distincts(rows, columns, Len(rows))
                  IN  [status |-> IF ValidVersion(columns) THEN 200 ELSE 500,
                       columns |-> columns,
                       rows |-> rows,
                       distincts |-> distincts,
                       version_rows |-> Len(rows)]

-----------------------------------------------------------------------------
(* upload_dataset: persistence (lines 125-145) *)

IdleUpload == [pc |-> "idle", rows |-> <<>>, dataset_id |-> BadId, i |-> 0,
               result |-> 0]

\* lines 125-131 declaring one row fewer than parsed
VersionDoc_short(file, a) ==
    [version |-> 1, filename |-> file.filename, rows |-> Len(a.rows) - 1,
     columns |-> a.columns, distincts |-> a.distincts]

\* lines 125-131: DatasetVersion(version=1, ...)
VersionDoc(file, a) ==
    [version |-> 1, filename |-> file.filename, rows |-> Len(a.rows),
     columns |-> a.columns, distincts |-> a.distincts]

\* lines 132-138: Dataset(current_version=1, versions=[version]); org_id,
\* name and description are passed through from the form
DatasetDoc(file, a) == [current_version |-> 1, versions |-> <<VersionDoc(file, a)>>]

\* line 143 tagging the row with the wrong version
RowDoc_v2(dataset_id, r) == [dataset_id |-> dataset_id, version |-> 2, data |-> r]

\* line 143: DatasetRow(dataset_id=dataset_id, version=1, data=r)
RowDoc(dataset_id, r) == [dataset_id |-> dataset_id, version |-> 1, data |-> r]

\* lines 108-139: checks, parse, analysis, then the dataset record is written
upload_begin(w, file) ==
    /\ ureq[w].pc = "idle"
    /\ Len(datasets) < MaxDatasets
    /\ LET a == Analysis(file)
       IN  IF a.status # 200
             THEN /\ ureq' = [ureq EXCEPT ![w] =
                                [IdleUpload EXCEPT !.pc = "done", !.result = a.status]]
                  /\ UNCHANGED <<datasets, uploads>>
             ELSE /\ datasets' = create_document(datasets, DatasetDoc(file, a))
                  /\ uploads' = Append(uploads, "running")
                  /\ ureq' = [ureq EXCEPT ![w] =
                                [IdleUpload EXCEPT !.pc = "rows", !.rows = a.rows,
                                                   !.dataset_id = Len(datasets) + 1,
                                                   !.i = 1]]
    /\ UNCHANGED <<subVars, anVars, exVars, datasetrows>>

\* lines 142-143, one turn of the loop: the DatasetRow is validated, then
\* written; a row that fails validation ends the request where it stands
upload_row(w) ==
    /\ ureq[w].pc = "rows"
    /\ ureq[w].i <= Len(ureq[w].rows)
    /\ LET r == ureq[w].rows[ureq[w].i]
       IN  IF ValidRow(r)
             THEN /\ datasetrows' =
                       create_document(datasetrows, RowDoc(ureq[w].dataset_id, r))
                  /\ ureq' = [ureq EXCEPT ![w].i = @ + 1]
                  /\ UNCHANGED uploads
             ELSE /\ ureq' = [ureq EXCEPT ![w].pc = "done", ![w].result = 500]
                  /\ uploads' = [uploads EXCEPT ![ureq[w].dataset_id] = "failed"]
                  /\ UNCHANGED datasetrows
    /\ UNCHANGED <<subVars, anVars, exVars, datasets>>

\* line 143: the store raises on a row write; nothing is rolled back
upload_store_error(w) ==
    /\ ureq[w].pc = "rows"
    /\ ureq[w].i <= Len(ureq[w].rows)
    /\ ureq' = [ureq EXCEPT ![w].pc = "done", ![w].result = 500]
    /\ uploads' = [uploads EXCEPT ![ureq[w].dataset_id] = "failed"]
    /\ UNCHANGED <<subVars, anVars, exVars, datasets, datasetrows>>

\* line 145: every row is written; the handler returns
upload_finish(w) ==
    /\ ureq[w].pc = "rows"
    /\ ureq[w].i > Len(ureq[w].rows)
    /\ ureq' = [ureq EXCEPT ![w].pc = "done", ![w].result = 200]
    /\ uploads' = [uploads EXCEPT ![ureq[w].dataset_id] = "completed"]
    /\ UNCHANGED <<subVars, anVars, exVars, datasets, datasetrows>>

\* the HTTP response is delivered; the worker takes the next request
upload_return(w) ==
    /\ ureq[w].pc = "done"
    /\ ureq' = [ureq EXCEPT ![w] = IdleUpload]
    /\ UNCHANGED <<subVars, anVars, exVars, datasets, datasetrows, uploads>>

-----------------------------------------------------------------------------
(* submit_response *)

NoPayload == [survey_id |-> 1, submitted_by |-> None, anonymous |-> FALSE]

IdleReq == [pc |-> "idle", survey_id |-> BadId, payload |-> NoPayload,
            limit |-> NoInt, count |-> 0, result |-> 0]

Payloads == [survey_id : PayloadSurveyIds, submitted_by : Users, anonymous : BOOLEAN]

InFlight == Cardinality({w \in Workers : sreq[w].pc \in {"count", "insert"}})

\* line 209, as the code's author could have slipped: anonymous ignored
AuthRequired_noanon(settings, payload) ==
    settings.require_auth /\ ~Truthy(payload.submitted_by)

\* line 209: the condition of the 403
AuthRequired(settings, payload) ==
    /\ settings.require_auth
    /\ ~Truthy(payload.submitted_by)
    /\ ~payload.anonymous

\* lines 203-214: validate the id, read the survey, auth check, read the limit
submit_find(w, survey_id, payload) ==
    /\ sreq[w].pc = "idle"
    /\ Len(responses) + InFlight < MaxResponses
    /\ LET survey == surveys[survey_id]
           req == [IdleReq EXCEPT !.survey_id = survey_id, !.payload = payload]
       IN  sreq' = [sreq EXCEPT ![w] =
             IF ~ValidOid(survey_id)
               THEN [req EXCEPT !.pc = "done", !.result = 400]
             ELSE IF ~found(surveys, survey_id)
               THEN [req EXCEPT !.pc = "done", !.result = 404]
             ELSE IF AuthRequired(survey.settings, payload)
               THEN [req EXCEPT !.pc = "done", !.result = 403]
             ELSE LET limit == survey.settings.response_limit_per_user
                  IN  IF TruthyInt(limit) /\ Truthy(payload.submitted_by)
                        THEN [req EXCEPT !.pc = "count", !.limit = limit]
                        ELSE [req EXCEPT !.pc = "insert", !.limit = limit]]
    /\ UNCHANGED <<surveys, responses, reply, anVars, upVars, exVars>>

\* line 219 with the comparison off by one
LimitReached_gt(count, limit) == count > limit

\* line 219
LimitReached(count, limit) == count >= limit

\* lines 215-220: count the submitter's stored responses, compare with the limit
submit_count(w) ==
    /\ sreq[w].pc = "count"
    /\ LET count == count_documents(sreq[w].survey_id, sreq[w].payload.submitted_by)
       IN  sreq' = [sreq EXCEPT ![w] =
             IF LimitReached(count, IntOf(sreq[w].limit))
               THEN [@ EXCEPT !.pc = "done", !.count = count, !.result = 429]
               ELSE [@ EXCEPT !.pc = "insert", !.count = count]]
    /\ UNCHANGED <<surveys, responses, reply, anVars, upVars, exVars>>

\* lines 222-223: store the payload; via is a history field (the path id the
\* response was accepted under), not part of the stored document
submit_insert(w) ==
    /\ sreq[w].pc = "insert"
    /\ responses' = create_document(responses,
          [survey_id |-> sreq[w].payload.survey_id,
           submitted_by |-> sreq[w].payload.submitted_by,
           anonymous |-> sreq[w].payload.anonymous,
           via |-> sreq[w].survey_id])
    /\ sreq' = [sreq EXCEPT ![w] = [@ EXCEPT !.pc = "done", !.result = 200]]
    /\ UNCHANGED <<surveys, reply, anVars, upVars, exVars>>

\* the HTTP response is delivered; the worker takes the next request
submit_return(w) ==
    /\ sreq[w].pc = "done"
    /\ sreq' = [sreq EXCEPT ![w] = IdleReq]
    /\ UNCHANGED <<surveys, responses, reply, anVars, upVars, exVars>>

-----------------------------------------------------------------------------
(* export_csv (lines 241-272) *)

\* a or b: a when truthy, else b
Or(a, b) == IF Truthy(a) THEN a ELSE b

\* csv.writer's text for a cell: None is written as the empty string
CsvCell(v) == IF v = None THEN "" ELSE v

\* str(bool)
StrBool(b) == IF b THEN "True" ELSE "False"

\* line 244: q.get("export_header") or q.get("text") or q.get("id")
HeaderLabel(q) == Or(q.export_header, Or(q.text, q.id))

\* lines 242-246
Headers ==
    [j \in 1..Len(questions) |-> HeaderLabel(questions[j])]
        \o <<"submitted_by", "anonymous", "created_at">>

\* line 256: the key an answer entry is filed under
AnswerKey(a) == Or(a.questionId, Or(a.id, a.text))

\* line 256: the dict comprehension; a later entry overwrites an earlier
\* one with the same key.  ans_map.get(key) over the first n entries
RECURSIVE AnsMapGet(_, _, _)
AnsMapGet(answers, n, key) ==
    IF n = 0 THEN None
    ELSE IF AnswerKey(answers[n]) = key THEN answers[n].value
    ELSE AnsMapGet(answers, n - 1, key)

\* lines 260-263: by id first, then by text
Cell(q, r) ==
    LET val == AnsMapGet(r.answers, Len(r.answers), q.id)
        val2 == IF val = None
                  THEN AnsMapGet(r.answers, Len(r.answers), q.text)
                  ELSE val
    IN  IF val2 # None THEN val2 ELSE ""

\* lines 257-268 without the meta columns
Row_nometa(r) == [j \in 1..Len(questions) |-> CsvCell(Cell(questions[j], r))]

\* lines 257-268
Row(r) ==
    [j \in 1..Len(questions) |-> CsvCell(Cell(questions[j], r))]
        \o <<CsvCell(r.submitted_by), StrBool(r.anonymous), r.created_at>>

\* lines 249-254: the first next() yields the header chunk
emit_header ==
    /\ gen.pc = "start"
    /\ chunks' = Append(chunks, Headers)
    /\ gen' = [pc |-> "rows", i |-> 1]
    /\ UNCHANGED <<subVars, anVars, upVars, questions, eresponses>>

\* lines 255-272: a later next() yields the chunk of the next response
emit_row ==
    /\ gen.pc = "rows"
    /\ gen.i <= Len(eresponses)
    /\ chunks' = Append(chunks, Row(eresponses[gen.i]))
    /\ gen' = [gen EXCEPT !.i = @ + 1]
    /\ UNCHANGED <<subVars, anVars, upVars, questions, eresponses>>

\* the loop is exhausted: the generator returns (StopIteration)
emit_stop ==
    /\ gen.pc = "rows"
    /\ gen.i > Len(eresponses)
    /\ gen' = [gen EXCEPT !.pc = "done"]
    /\ UNCHANGED <<subVars, anVars, upVars, questions, eresponses, chunks>>

-----------------------------------------------------------------------------
(* Submission: specifications *)

\* The state after construction: empty collections, no request in progress
StoreInit ==
    /\ surveys = <<>>
    /\ responses = <<>>
    /\ sreq = [w \in Workers |-> IdleReq]
    /\ reply = NoReply
    /\ datasets = <<>>
    /\ datasetrows = <<>>
    /\ ureq = [w \in Workers |-> IdleUpload]
    /\ uploads = <<>>

\* No upload is being analysed
NoUpload ==
    /\ afile = NoFile
    /\ aout = NoAnalysis

\* No export is in progress
NoExport ==
    /\ questions = <<>>
    /\ eresponses = <<>>
    /\ gen = [pc |-> "start", i |-> 0]
    /\ chunks = <<>>

SubmitInit == StoreInit /\ NoUpload /\ NoExport

SubmitSurvey ==
    \E ra \in BOOLEAN, lim \in LimitInputs :
        /\ Len(surveys) + 1 \in SubmitSurveyIds
        /\ create_survey(SurveySettings(ra, lim), "draft")

\* Requests of the workers interleave at every store call
SubmitNext ==
    \/ SubmitSurvey
    \/ \E w \in Workers, id \in PathIds, p \in Payloads : submit_find(w, id, p)
    \/ \E w \in Workers : submit_count(w)
    \/ \E w \in Workers : submit_insert(w)
    \/ \E w \in Workers : submit_return(w)

Spec == SubmitInit /\ [][SubmitNext]_vars

AllIdle == \A w \in Workers : sreq[w].pc = "idle"

\* Sequential execution: a request starts only when no other is in progress
SeqNext ==
    \/ SubmitSurvey
    \/ \E w \in Workers, id \in PathIds, p \in Payloads :
          AllIdle /\ submit_find(w, id, p)
    \/ \E w \in Workers : submit_count(w)
    \/ \E w \in Workers : submit_insert(w)
    \/ \E w \in Workers : submit_return(w)

SeqSpec == SubmitInit /\ [][SeqNext]_vars

-----------------------------------------------------------------------------
(* Submission: claims *)

\* The responses accepted from submitter u through survey sid's endpoint
Accepted(sid, u) ==
    Cardinality({i \in DOMAIN responses :
                    responses[i].via = sid /\ responses[i].submitted_by = u})

\* ... and stored under that survey's id
Matched(sid, u) ==
    Cardinality({i \in DOMAIN responses :
                    /\ responses[i].via = sid
                    /\ responses[i].survey_id = sid
                    /\ responses[i].submitted_by = u})

Limit(sid) == surveys[sid].settings.response_limit_per_user

\* C1: under sequential execution, for every survey whose settings specify
\* a response_limit_per_user L (any value) and every submitter u, a
\* submission by u is rejected (never reaches the insert) whenever the
\* responses already accepted from u for the survey number L or more, so
\* the accepted responses from u never exceed L.
C1_RateLimitSequential ==
    \A sid \in DOMAIN surveys : \A u \in Users :
        (Limit(sid) # NoInt /\ Truthy(u)) =>
            /\ Accepted(sid, u) <= IntOf(Limit(sid))
            /\ \A w \in Workers :
                  (/\ sreq[w].pc = "insert"
                   /\ sreq[w].survey_id = sid
                   /\ sreq[w].payload.submitted_by = u)
                  => Accepted(sid, u) < IntOf(Limit(sid))

CapApplies(r) == TruthyInt(r.limit) /\ Truthy(r.payload.submitted_by)

\* C2: the count check and the insert are separate steps: a request about
\* to insert under a cap L has read a count below L, whatever the store
\* holds by now, so requests that interleave take the stored count past L,
\* by at most one response per additional concurrent request.
C2_CheckThenInsert ==
    /\ \A w \in Workers :
          (sreq[w].pc = "insert" /\ CapApplies(sreq[w]))
          => sreq[w].count < IntOf(sreq[w].limit)
    /\ \A sid \in DOMAIN surveys : \A u \in Users :
          (TruthyInt(Limit(sid)) /\ Truthy(u))
          => Matched(sid, u) <= IntOf(Limit(sid)) + Cardinality(Workers) - 1

\* C2 witness: the submitter's stored responses for the survey exceed its cap
C2_CapExceeded ==
    \E sid \in DOMAIN surveys : \E u \in Users :
        /\ TruthyInt(Limit(sid)) /\ Truthy(u)
        /\ Matched(sid, u) > IntOf(Limit(sid))

StoredDoc(r) ==
    [survey_id |-> r.payload.survey_id, submitted_by |-> r.payload.submitted_by,
     anonymous |-> r.payload.anonymous, via |-> r.survey_id]

\* C3: for an existing survey a response is rejected with 403 exactly when
\* require_auth holds, it has no submitter and is not anonymous; the 403 is
\* decided before the count is read and stores nothing; a 429 stores
\* nothing; every other response is accepted and stored as one new record.
C3_AuthPolicy ==
    [][\A w \in Workers :
         LET r == sreq'[w]
             exists == ValidOid(r.survey_id) /\ found(surveys, r.survey_id)
             cond == /\ surveys[r.survey_id].settings.require_auth
                     /\ r.payload.submitted_by \in {None, ""}
                     /\ r.payload.anonymous = FALSE
         IN  /\ (r.pc \in {"count", "insert"}) => ~cond
             /\ (sreq[w].pc # "done" /\ r.pc = "done" /\ exists) =>
                  /\ r.result = 403 <=> cond
                  /\ r.result = 403 => (sreq[w].pc = "idle" /\ responses' = responses)
                  /\ r.result = 429 => responses' = responses
                  /\ r.result \notin {403, 429} =>
                        /\ r.result = 200
                        /\ responses' = Append(responses, StoredDoc(r))
      ]_vars

\* C3 witness: one request rejected with 403 and another accepted
C3_RejectedAndAccepted ==
    \E w1, w2 \in Workers :
        /\ sreq[w1].pc = "done" /\ sreq[w1].result = 403
        /\ sreq[w2].pc = "done" /\ sreq[w2].result = 200

-----------------------------------------------------------------------------
(* Analysis: specification and claims *)

\* the records csv.reader yields: the header, then the data lines
RecordsOf(maxLines) ==
    {<<h>> \o ls : h \in HeaderInputs,
                   ls \in SeqsOf(SeqsOf(Vals, FieldLens), 0..maxLines)}

AnalyzeInit ==
    /\ StoreInit
    /\ NoExport
    /\ aout = NoAnalysis
    /\ \/ afile \in [filename : {CsvName}, records : {<<>>} \cup RecordsOf(MaxLines)]
       \/ afile \in [filename : OtherNames, records : RecordsOf(1)]

analyze ==
    /\ aout = NoAnalysis
    /\ aout' = Analysis(afile)
    /\ UNCHANGED <<subVars, upVars, exVars, afile>>

AnalyzeNext == analyze

AnalyzeSpec == AnalyzeInit /\ [][AnalyzeNext]_vars

\* The file as the claims describe it: header H and the non-blank data rows
HeaderOf(file) == Head(file.records)
DataOf(file) == SelectSeq(Tail(file.records), LAMBDA r : r # <<>>)
TabularInput(file) ==
    /\ IsCsvName(file.filename)
    /\ file.records # <<>>
    /\ HeaderOf(file) # <<>>
    /\ \A i, j \in DOMAIN HeaderOf(file) :
          i # j => HeaderOf(file)[i] # HeaderOf(file)[j]
    /\ Len(DataOf(file)) >= 1

\* C6: for every tabular input with header H and N >= 1 data rows, short
\* and long rows included, the analysis gives rows = N and columns = H in
\* header order, and no field beyond the header's length appears as a
\* column or as a key of a row.
C6_RowsAndColumns ==
    (aout # NoAnalysis /\ TabularInput(afile)) =>
        /\ aout.status = 200
        /\ aout.version_rows = Len(DataOf(afile))
        /\ aout.columns = HeaderOf(afile)
        /\ \A n \in DOMAIN aout.rows : \A i \in DOMAIN aout.rows[n] :
              SeqHas(HeaderOf(afile), aout.rows[n][i].k)

Observed(c, n) == DictGet(aout.rows[n], c)
FirstSeen(c, v) ==
    CHOOSE n \in DOMAIN aout.rows :
        /\ Observed(c, n) = v
        /\ \A m \in DOMAIN aout.rows : Observed(c, m) = v => n <= m

\* C7: the keys of distincts are exactly the columns of the first data
\* row; each column's list holds every non-null value observed in the
\* column exactly once, in order of first occurrence, and never a null.
C7_Distincts ==
    aout.rows # <<>> =>
        LET cols == {aout.rows[1][i].k : i \in DOMAIN aout.rows[1]}
        IN  /\ DOMAIN aout.distincts = cols
            /\ \A c \in cols :
                 LET l == aout.distincts[c]
                 IN  /\ \A i, j \in DOMAIN l : i # j => l[i] # l[j]
                     /\ {l[i] : i \in DOMAIN l}
                          = {Observed(c, n) : n \in DOMAIN aout.rows} \ {NoneV}
                     /\ \A i, j \in DOMAIN l :
                          i < j => FirstSeen(c, l[i]) < FirstSeen(c, l[j])

\* C7 witness: an accepted upload with a column whose value repeats after
\* a different one, and a column a short row leaves null
C7_RepeatAndNull ==
    /\ aout.status = 200
    /\ \E c \in DOMAIN aout.distincts : \E n, m \in DOMAIN aout.rows :
          /\ n + 1 < m
          /\ Observed(c, n) = Observed(c, m)
          /\ Observed(c, n) # NoneV
          /\ Observed(c, n + 1) \notin {NoneV, Observed(c, n)}
          /\ Len(aout.distincts[c]) = 2
    /\ \E c \in DOMAIN aout.distincts : \E n \in DOMAIN aout.rows :
          Observed(c, n) = NoneV


-----------------------------------------------------------------------------
(* Upload: specification and claims *)

UploadFiles ==
    [filename : {CsvName},
     records : {<<h>> \o ls :
                  h \in SeqsOf(UploadCols, {1}),
                  ls \in SeqsOf(SeqsOf(UploadVals, UploadFieldLens), 0..MaxUploadLines)}]
    \cup [filename : OtherNames, records : {<<>>}]

UploadInit == StoreInit /\ NoUpload /\ NoExport

\* Uploads of the workers interleave at every store call
UploadNext ==
    \/ \E w \in Workers, file \in UploadFiles : upload_begin(w, file)
    \/ \E w \in Workers : upload_row(w)
    \/ \E w \in Workers : upload_store_error(w)
    \/ \E w \in Workers : upload_finish(w)
    \/ \E w \in Workers : upload_return(w)

UploadSpec == UploadInit /\ [][UploadNext]_vars

\* the DatasetRow documents of a dataset and version
RowsOf(d, v) ==
    Cardinality({i \in DOMAIN datasetrows :
                    datasetrows[i].dataset_id = d /\ datasetrows[i].version = v})

\* C4: once an upload has run to completion, each DatasetVersion of its
\* dataset declares as many rows as there are DatasetRow documents with
\* that dataset id and version.
C4_RowsMatchWhenCompleted ==
    \A d \in DOMAIN datasets :
        uploads[d] = "completed" =>
            \A k \in DOMAIN datasets[d].versions :
                datasets[d].versions[k].rows
                    = RowsOf(d, datasets[d].versions[k].version)

\* C4 witness: two completed uploads with rows, written interleaved
C4_TwoCompleted ==
    /\ Len(datasets) = 2
    /\ \A d \in DOMAIN datasets : uploads[d] = "completed" /\ RowsOf(d, 1) >= 1
    /\ \E i \in DOMAIN datasetrows :
          i > 1 /\ datasetrows[i].dataset_id = 1 /\ datasetrows[i - 1].dataset_id = 2

\* C5: at every moment a dataset has at most as many DatasetRow documents
\* as it declares, strictly fewer once its upload has failed, and every
\* DatasetRow document references a dataset record that was written.
C5_RowsNeverExceedDeclared ==
    /\ \A d \in DOMAIN datasets :
          /\ RowsOf(d, 1) <= datasets[d].versions[1].rows
          /\ uploads[d] = "failed" => RowsOf(d, 1) < datasets[d].versions[1].rows
    /\ \A i \in DOMAIN datasetrows : datasetrows[i].dataset_id \in DOMAIN datasets

\* C5 witness: an upload failed after some of its rows were written
C5_PartialFailure ==
    \E d \in DOMAIN datasets :
        /\ uploads[d] = "failed"
        /\ RowsOf(d, 1) >= 1
        /\ RowsOf(d, 1) < datasets[d].versions[1].rows

-----------------------------------------------------------------------------
(* Export: specification and claims *)

ExportInit ==
    /\ StoreInit
    /\ NoUpload
    /\ questions \in SeqsOf(QuestionInputs, 0..MaxQuestions)
    /\ eresponses \in SeqsOf(ResponseInputs, 0..MaxExported)
    /\ gen = [pc |-> "start", i |-> 0]
    /\ chunks = <<>>

ExportNext ==
    \/ emit_header
    \/ emit_row
    \/ emit_stop

ExportSpec == ExportInit /\ [][ExportNext]_vars

\* C8: the generator yields the header chunk first, then one chunk per
\* response in the order of the responses, each of len(questions) + 3
\* fields, the header ending in submitted_by, anonymous, created_at; it
\* yields len(responses) + 1 chunks in all and then terminates.
C8_ChunksInOrder ==
    LET nq == Len(questions)
    IN  /\ gen.pc = "start" => chunks = <<>>
        /\ gen.pc = "rows" => Len(chunks) = gen.i
        /\ gen.pc = "done" => Len(chunks) = Len(eresponses) + 1
        /\ \A k \in DOMAIN chunks : Len(chunks[k]) = nq + 3
        /\ chunks # <<>> =>
              SubSeq(chunks[1], nq + 1, nq + 3)
                  = <<"submitted_by", "anonymous", "created_at">>
        /\ \A k \in DOMAIN chunks :
              k > 1 => SubSeq(chunks[k], nq + 1, nq + 3)
                          = <<CsvCell(eresponses[k - 1].submitted_by),
                              StrBool(eresponses[k - 1].anonymous),
                              eresponses[k - 1].created_at>>
        /\ gen.pc = "done" \/ ENABLED ExportNext

\* C8 witness: the generator has finished a survey with two questions and
\* two responses that differ in their meta columns
C8_FinishedTwoByTwo ==
    /\ gen.pc = "done"
    /\ Len(questions) = 2
    /\ Len(eresponses) = 2
    /\ eresponses[1].submitted_by # eresponses[2].submitted_by
    /\ Len(chunks) = 3

\* The answer lookup as the claim states it: the entry filed last under key
ClaimKey(a) ==
    IF a.questionId \notin {None, ""} THEN a.questionId
    ELSE IF a.id \notin {None, ""} THEN a.id
    ELSE a.text
ClaimHas(r, key) == \E n \in DOMAIN r.answers : ClaimKey(r.answers[n]) = key
ClaimEntry(r, key) ==
    LET last == CHOOSE n \in DOMAIN r.answers :
                   /\ ClaimKey(r.answers[n]) = key
                   /\ \A m \in DOMAIN r.answers :
                         ClaimKey(r.answers[m]) = key => m <= n
    IN  r.answers[last].value

\* C9: each cell is the lookup's entry for the question's id if that key
\* is present, otherwise its entry for the question's text, and the empty
\* string only when both lookups miss.
C9_CellLookup ==
    \A k \in DOMAIN chunks :
        k > 1 => \A j \in DOMAIN questions :
            LET q == questions[j]
                r == eresponses[k - 1]
            IN  chunks[k][j] =
                  CsvCell(IF ClaimHas(r, q.id) THEN ClaimEntry(r, q.id)
                          ELSE IF ClaimHas(r, q.text) THEN ClaimEntry(r, q.text)
                          ELSE "")

-----------------------------------------------------------------------------
(* Survey status: specification and claims *)

StatusNext ==
    \/ \E st \in StatusInputs :
          /\ Len(surveys) < MaxSurveys
          /\ create_survey(SurveySettings(FALSE, NoInt), st)
    \/ \E id \in 0..MaxSurveys, st \in StatusInputs : set_survey_status(id, st)

StatusSpec == SubmitInit /\ [][StatusNext]_vars

ValidStatus == {"draft", "active", "closed"}

\* C10: every stored survey's status is one of draft, active, closed; a
\* set_survey_status with another status fails with 400 and changes no
\* survey; any of the three replaces any current status; a call on a
\* survey that does not exist fails with 404 and creates none.
C10_StatusAlwaysValid ==
    /\ [](\A i \in DOMAIN surveys : surveys[i].status \in ValidStatus)
    /\ [][reply' # reply =>
            /\ reply'.status \notin ValidStatus =>
                  (reply'.result = 400 /\ surveys' = surveys)
            /\ (/\ reply'.status \in ValidStatus
                /\ ValidOid(reply'.survey_id)
                /\ ~found(surveys, reply'.survey_id)) =>
                  (reply'.result = 404 /\ surveys' = surveys)
            /\ (reply'.status \in ValidStatus /\ found(surveys, reply'.survey_id)) =>
                  /\ reply'.result = 200
                  /\ surveys'[reply'.survey_id].status = reply'.status
         ]_vars

=============================================================================
